---- MODULE Spec2Model ----
(***************************************************************************)
(* Journey: an append-only, header-less journaling container               *)
(* (src/journey.hpp).  Files are byte sequences; the archive object holds  *)
(* a path (journal) and a table of contents (toc).  The stream operations  *)
(* of std::ifstream / std::ofstream are modelled by their effect on the    *)
(* position and on the eofbit / failbit of the stream.                     *)
(***************************************************************************)
EXTENDS Integers, Sequences, FiniteSets, TLC

VARIABLES files, journal, toc, log, ret, inflight

vars == <<files, journal, toc, log, ret, inflight>>

(***************************************************************************)
(* Bounds of the model.                                                    *)
(***************************************************************************)
MaxAppends == 2
MaxStamp == 2
MaxPrefix == 9

(***************************************************************************)
(* Bytes, 64-bit words and the magic sentinel.                             *)
(***************************************************************************)
\* a value standing for every 64-bit quantity of 2^24 or more
Huge == 256 * 256 * 256

Zeros(n) == [i \in 1..n |-> 0]

Last(s) == s[Len(s)]

\* ofs.write( (const char *)&x, 8 ) on a little-endian host
Enc64(n) ==
  <<n % 256, (n \div 256) % 256, (n \div 65536) % 256, 0, 0, 0, 0, 0>>

\* ifs.read( (char *)&x, 8 ): v is the unsigned value, neg the sign of int64_t(x)
Dec64(b) ==
  [v   |-> IF b[4] = 0 /\ b[5] = 0 /\ b[6] = 0 /\ b[7] = 0 /\ b[8] = 0
           THEN b[1] + 256 * b[2] + 65536 * b[3]
           ELSE Huge,
   neg |-> b[8] >= 128]

\* 0x3179656E72756F6A, 'journey1', as its eight bytes in the file
magic_right_endian == <<106, 111, 117, 114, 110, 101, 121, 49>>

\* 0x6A6F75726E657931, 'journey1' swapped
magic_wrong_endian == <<49, 121, 101, 110, 114, 117, 111, 106>>

\* (((p + 8) & ~7) - p) % 8, for p = tellg() or tellp(); p = -1 is uint64_t(-1)
PadLen(p) == ((((p + 8) - ((p + 8) % 8)) - p) % 8)

(***************************************************************************)
(* Names, payloads, paths and archive objects.                             *)
(***************************************************************************)
\* "a" and "a\0b"
NameA == <<97>>
NameANulB == <<97, 0, 98>>

Names == {NameA, NameANulB}

\* the empty payload and "previous!"
Payloads == {<<>>, <<112, 114, 101, 118, 105, 111, 117, 115, 33>>}

Stamps == 1..MaxStamp

\* end_stamp of the widest window, UINT64_MAX
WidestEnd == Huge

Paths == {"journey.joy", "journey2.joy", "glued.joy"}

Objs == {"j", "j2", "j3"}

\* the file each archive object of the model is initialised on
ObjPath == [o \in Objs |-> IF o = "j" THEN "journey.joy"
                           ELSE IF o = "j2" THEN "journey2.joy" ELSE "glued.joy"]

NoFile == [ex |-> FALSE, b |-> <<>>]

\* const char * from std::string::c_str(), converted back to std::string
RECURSIVE c_str(_)
c_str(s) ==
  IF s = <<>> \/ s[1] = 0 THEN <<>> ELSE <<s[1]>> \o c_str(Tail(s))

\* std::string operator< : lexicographic order on unsigned bytes
RECURSIVE StrLess(_, _)
StrLess(a, b) ==
  IF b = <<>> THEN FALSE
  ELSE IF a = <<>> THEN TRUE
  ELSE IF a[1] # b[1] THEN a[1] < b[1]
  ELSE StrLess(Tail(a), Tail(b))

\* the keys of a std::map in iteration order
RECURSIVE SortedKeys(_)
SortedKeys(S) ==
  IF S = {} THEN <<>>
  ELSE LET m == CHOOSE x \in S : \A y \in S \ {x} : StrLess(x, y)
       IN <<m>> \o SortedKeys(S \ {m})

EmptyToc == [n \in {} |-> 0]

(***************************************************************************)
(* std::ifstream: position, failbit and eofbit.                            *)
(***************************************************************************)
Good(st) == ~st.fail /\ ~st.eof

\* the sentry of an unformatted input function sets failbit on a stream that is not good
Sentry(st) == IF Good(st) THEN st ELSE [st EXCEPT !.fail = TRUE]

\* std::ifstream ifs( path, binary | ate ) and std::ifstream ifs( path, binary )
OpenIn(f, atEnd) ==
  IF f.ex THEN [pos |-> IF atEnd THEN Len(f.b) ELSE 0, fail |-> FALSE, eof |-> FALSE]
  ELSE [pos |-> 0, fail |-> TRUE, eof |-> FALSE]

\* the value of ifs.tellg(): -1 on a stream that is not good
Tellg(st) == IF Good(st) THEN st.pos ELSE -1

\* ifs.seekg( off, ifs.cur ): clears eofbit, fails on a negative target
SeekCur(st, off) ==
  LET s1 == [st EXCEPT !.eof = FALSE]
  IN IF s1.fail THEN s1
     ELSE IF s1.pos + off < 0 THEN [s1 EXCEPT !.fail = TRUE]
     ELSE [s1 EXCEPT !.pos = s1.pos + off]

\* ifs.seekg( pos ): absolute
SeekAbs(st, pos) ==
  LET s1 == [st EXCEPT !.eof = FALSE]
  IN IF s1.fail THEN s1
     ELSE IF pos < 0 THEN [s1 EXCEPT !.fail = TRUE]
     ELSE [s1 EXCEPT !.pos = pos]

\* the bytes of b left at position pos
Avail(b, pos) == IF pos >= Len(b) THEN 0 ELSE Len(b) - pos

\* ifs.ignore( n )
Ignore(b, st, n) ==
  LET s1 == Sentry(st)
  IN IF s1.fail \/ n <= 0 THEN s1
     ELSE IF n <= Avail(b, s1.pos) THEN [s1 EXCEPT !.pos = s1.pos + n]
     ELSE [s1 EXCEPT !.pos = s1.pos + Avail(b, s1.pos), !.eof = TRUE]

\* ifs.read( buf, n ): the stream afterwards and the bytes extracted
ReadN(b, st, n) ==
  LET s1 == Sentry(st)
  IN IF s1.fail \/ n <= 0 THEN [st |-> s1, got |-> <<>>]
     ELSE IF n <= Avail(b, s1.pos)
          THEN [st  |-> [s1 EXCEPT !.pos = s1.pos + n],
                got |-> SubSeq(b, s1.pos + 1, s1.pos + n)]
          ELSE [st  |-> [s1 EXCEPT !.pos = s1.pos + Avail(b, s1.pos),
                                   !.eof = TRUE, !.fail = TRUE],
                got |-> SubSeq(b, s1.pos + 1, s1.pos + Avail(b, s1.pos))]

\* auto skip_padding = [&] { ... ifs.ignore( pad ); }
skip_padding(b, st) ==
  LET s1 == Sentry(st)
  IN Ignore(b, s1, PadLen(Tellg(s1)))

\* fname.resize( n ) followed by ifs.read( &fname[0], n ): got overwrites a prefix
Overwrite(old, n, got) ==
  [i \in 1..n |-> IF i <= Len(got) THEN got[i]
                  ELSE IF i <= Len(old) THEN old[i] ELSE 0]

(***************************************************************************)
(* journey::append                                                         *)
(***************************************************************************)
\* write_padding writing nothing
write_padding_none(b) == b

\* write_padding without the final % 8: eight zero bytes at an aligned offset
write_padding_eight(b) == b \o Zeros(8 - (Len(b) % 8))

\* auto write_padding = [&] { ... ofs.write( buf, pad ); }, b the file so far
write_padding(b) == b \o Zeros(PadLen(Len(b)))

\* append_writes with the 40 bytes of the info block counted into filelen
append_writes_counting_info(b, filename, data, stamp) ==
  LET start == Len(b)
      w4 == write_padding(write_padding(b) \o filename \o <<0>>)
      w6 == write_padding(w4 \o data)
  IN [b |-> w6 \o Enc64(stamp) \o Enc64(Len(filename)) \o Enc64(Len(data))
               \o Enc64(Len(w6) - start + 40) \o magic_right_endian,
      start |-> start, offset |-> Len(w4), info |-> Len(w6)]

\* append_writes on a stream opened without std::ios::app, which truncates
append_writes_truncating(b, filename, data, stamp) ==
  LET w4 == write_padding(write_padding(<<>>) \o filename \o <<0>>)
      w6 == write_padding(w4 \o data)
  IN [b |-> w6 \o Enc64(stamp) \o Enc64(Len(filename)) \o Enc64(Len(data))
               \o Enc64(Len(w6)) \o magic_right_endian,
      start |-> 0, offset |-> Len(w4), info |-> Len(w6)]

\* the writes of append on a file holding b: the file afterwards, with the
\* offsets at which the payload and the info block were written
append_writes(b, filename, data, stamp) ==
  LET namelen == Len(filename)
      datalen == Len(data)
      start   == Len(b)
      w1 == write_padding(b)
      w2 == w1 \o filename
      w3 == w2 \o <<0>>
      w4 == write_padding(w3)
      w5 == w4 \o data
      w6 == write_padding(w5)
      filelen == Len(w6) - start
      w7 == w6 \o Enc64(stamp) \o Enc64(namelen) \o Enc64(datalen)
               \o Enc64(filelen) \o magic_right_endian
  IN [b |-> w7, start |-> start, offset |-> Len(w4), info |-> Len(w6)]

\* append_ok without the test of ptr
append_ok_ignoring_ptr(path, filename, ptr_null) ==
  path # "" /\ filename # <<>>

\* if( journal.size() && ptr && !filename.empty() )
append_ok(path, filename, ptr_null) ==
  path # "" /\ ~ptr_null /\ filename # <<>>

\* bool append( filename, ptr, len, stamp ) const: the file afterwards
append(f, path, filename, data, ptr_null, stamp) ==
  IF append_ok(path, filename, ptr_null)
  THEN [ex |-> TRUE, b |-> append_writes(f.b, filename, data, stamp).b]
  ELSE f

(***************************************************************************)
(* journey::load                                                           *)
(***************************************************************************)
\* IsMagic taking any word for the magic
IsMagic_any(m) == TRUE

\* magic != magic_right_endian && magic != magic_wrong_endian, negated
IsMagic(m) == m = magic_right_endian \/ m = magic_wrong_endian

\* Inscribed without the test toc.find( fname ) == toc.end()
Inscribed_overwriting(t, fname, stamp, beg_stamp, end_stamp) ==
  stamp >= beg_stamp /\ stamp <= end_stamp

\* Inscribed without the test stamp <= end_stamp
Inscribed_unbounded(t, fname, stamp, beg_stamp, end_stamp) ==
  stamp >= beg_stamp /\ fname \notin DOMAIN t

\* stamp >= beg_stamp && stamp <= end_stamp && toc.find( fname ) == toc.end()
Inscribed(t, fname, stamp, beg_stamp, end_stamp) ==
  stamp >= beg_stamp /\ stamp <= end_stamp /\ fname \notin DOMAIN t

\* int64_t(x) as a seek offset; values of 2^24 or more leave the file
AsInt64(x) == IF x.neg THEN -Huge ELSE x.v

\* ifs.ignore( datalen ): a count that is negative as a streamsize skips nothing
AsCount(x) == IF x.neg THEN 0 ELSE x.v

\* ifs.seekg( -8*5-int64_t(filelen), ifs.cur )
FirstSeek(filelen) == (-40) - AsInt64(filelen)

\* one pass of the body of the while loop of load
LoadBody(b, s, beg_stamp, end_stamp) ==
  LET st1 == SeekCur(s.st, -40)
      r1  == ReadN(b, st1, 8)
      r2  == ReadN(b, r1.st, 8)
      r3  == ReadN(b, r2.st, 8)
      r4  == ReadN(b, r3.st, 8)
      r5  == ReadN(b, r4.st, 8)
  IN IF Len(r5.got) < 8
     THEN [s EXCEPT !.st = r5.st, !.stop = "undef"]
     ELSE IF ~IsMagic(r5.got)
     THEN [s EXCEPT !.st = r5.st, !.stop = "break"]
     ELSE
       LET stamp   == Dec64(r1.got)
           namelen == Dec64(r2.got)
           datalen == Dec64(r3.got)
           filelen == Dec64(r4.got)
           st2 == SeekCur(r5.st, FirstSeek(filelen))
           st3 == skip_padding(b, st2)
       IN IF namelen.v = Huge
          THEN [s EXCEPT !.st = st3, !.stop = "throw"]
          ELSE
            LET rn    == ReadN(b, st3, namelen.v)
                fname == Overwrite(s.fname, namelen.v, rn.got)
                st4   == Ignore(b, rn.st, 1)
                st5   == skip_padding(b, st4)
                ins   == Inscribed(s.toc, fname, stamp.v, beg_stamp, end_stamp)
                toc1  == IF ins
                         THEN (fname :> [offset |-> Tellg(st5),
                                         size   |-> datalen.v,
                                         stamp  |-> stamp.v]) @@ s.toc
                         ELSE s.toc
                st6   == Ignore(b, st5, AsCount(datalen))
                st7   == skip_padding(b, st6)
                st8   == SeekCur(st7, - AsInt64(filelen))
            IN [st |-> st8, toc |-> toc1, count |-> s.count + 1,
                fname |-> fname, stop |-> "no",
                seen |-> Append(s.seen, [name |-> fname, stamp |-> stamp.v,
                                         size |-> datalen.v, offset |-> Tellg(st5),
                                         inscribed |-> ins])]

RECURSIVE LoadNext(_, _, _, _, _, _)

\* while( ifs.good() && ifs.tellg() >= (8 * 5) ) { ... }
RECURSIVE LoadLoop(_, _, _, _, _)
LoadLoop(b, s, beg_stamp, end_stamp, fuel) ==
  IF s.stop # "no" THEN s
  ELSE IF ~(Good(s.st) /\ Tellg(s.st) >= 40) THEN s
  ELSE IF fuel = 0 THEN [s EXCEPT !.stop = "hang"]
  ELSE LoadNext(b, s, LoadBody(b, s, beg_stamp, end_stamp), beg_stamp, end_stamp, fuel)

\* the loop after a pass that took the scan from s to n: a pass that leaves
\* the stream, the toc and fname as it found them is repeated for ever
LoadNext(b, s, n, beg_stamp, end_stamp, fuel) ==
  IF n.stop = "no" /\ n.st = s.st /\ n.toc = s.toc /\ n.fname = s.fname
  THEN [n EXCEPT !.stop = "hang"]
  ELSE LoadLoop(b, n, beg_stamp, end_stamp, fuel - 1)

\* LoadOk returning whether the scan inscribed an entry
LoadOk_inscribed(s) ==
  s.stop \in {"no", "break"} /\ Good(s.st) /\ DOMAIN s.toc # {}

\* return ifs.good() && count > 0, s the scan when the loop has ended
LoadOk(s) ==
  s.stop \in {"no", "break"} /\ Good(s.st) /\ s.count > 0

\* bool load( beg_stamp, end_stamp ): the toc built and the value returned;
\* seen lists the entries visited, as the lines written to debugstream do;
\* stop tells how the scan ended ("no": the loop condition, "break": bad magic,
\* "throw": fname.resize threw, "undef": an info block read past the end of
\* the file, "hang": the scan does not end)
load(f, path, beg_stamp, end_stamp) ==
  IF beg_stamp > end_stamp
  THEN [toc |-> EmptyToc, ok |-> FALSE, stop |-> "no", seen |-> <<>>]
  ELSE
    LET s0 == [st |-> OpenIn(IF path = "" THEN NoFile ELSE f, TRUE),
               toc |-> EmptyToc, count |-> 0, fname |-> <<>>, stop |-> "no",
               seen |-> <<>>]
        s  == LoadLoop(f.b, s0, beg_stamp, end_stamp, Len(f.b) + 1)
    IN [toc |-> s.toc,
        ok  |-> LoadOk(s),
        stop |-> s.stop, seen |-> s.seen]

(***************************************************************************)
(* journey::read                                                           *)
(***************************************************************************)
\* template<typename T> bool read( T &data, const std::string &name ) const
read_into(f, path, t, name) ==
  IF name \in DOMAIN t
  THEN LET entry == t[name]
           ifs   == OpenIn(IF path = "" THEN NoFile ELSE f, FALSE)
           st1   == SeekAbs(ifs, entry.offset)
           r     == ReadN(f.b, st1, entry.size)
       IN IF Good(r.st)
          THEN [ok |-> TRUE, data |-> r.got]
          ELSE [ok |-> FALSE, data |-> <<>>]
  ELSE [ok |-> FALSE, data |-> <<>>]

\* std::string read( const std::string &name ) const
read(f, path, t, name) ==
  LET r == read_into(f, path, t, name)
  IN IF r.ok THEN r.data ELSE <<>>

(***************************************************************************)
(* journey::compact                                                        *)
(***************************************************************************)
\* for( auto &entry : toc ) { ... }: fs the files, keys the names still to
\* copy; wrote lists the entries appended to new_journal_file
RECURSIVE compact_loop(_, _, _, _, _)
compact_loop(fs, path, t, new_journal_file, keys) ==
  IF keys = <<>> THEN [files |-> fs, ok |-> TRUE, wrote |-> <<>>]
  ELSE
    LET name == c_str(keys[1])
        info == t[keys[1]]
        r    == read_into(IF path = "" THEN NoFile ELSE fs[path], path, t, name)
    IN IF ~r.ok THEN [files |-> fs, ok |-> FALSE, wrote |-> <<>>]
       ELSE IF ~append_ok(new_journal_file, name, FALSE)
       THEN [files |-> fs, ok |-> FALSE, wrote |-> <<>>]
       ELSE
         LET w    == append_writes(fs[new_journal_file].b, name, r.data, info.stamp)
             rest == compact_loop(
                       [fs EXCEPT ![new_journal_file] =
                          append(fs[new_journal_file], new_journal_file, name,
                                 r.data, FALSE, info.stamp)],
                       path, t, new_journal_file, Tail(keys))
         IN [rest EXCEPT !.wrote =
               <<[name |-> name, data |-> r.data, stamp |-> info.stamp,
                  start |-> w.start, offset |-> w.offset, info |-> w.info]>> \o @]

\* bool compact( const std::string &new_journal_file ) const
compact(fs, path, t, new_journal_file) ==
  IF DOMAIN t = {} THEN [files |-> fs, ok |-> FALSE, wrote |-> <<>>]
  ELSE compact_loop(fs, path, t, new_journal_file, SortedKeys(DOMAIN t))

(***************************************************************************)
(* The state machine.  files maps a path to the file's bytes; journal and  *)
(* toc are the members of each archive object; log records, per path, the  *)
(* entries that calls of append wrote; ret is the value last returned;     *)
(* inflight holds, per object, the std::ofstream of an append that has not *)
(* returned yet: the position at which it was opened and the bytes of the  *)
(* entry that have not reached the file.                                   *)
(***************************************************************************)
\* no append of the object is under way
NoStream == [open |-> FALSE, pos |-> 0, buf |-> <<>>, sent |-> 0,
             name |-> <<>>, data |-> <<>>, stamp |-> 0, start |-> 0]

Ret(op, ok, data) == [op |-> op, ok |-> ok, data |-> data]

File(p) == IF p = "" THEN NoFile ELSE files[p]

\* journey() : default construction of every object, no file on disk
Init ==
  /\ files = [p \in Paths |-> NoFile]
  /\ journal = [o \in Objs |-> ""]
  /\ toc = [o \in Objs |-> EmptyToc]
  /\ log = [p \in Paths |-> <<>>]
  /\ ret = Ret("new", TRUE, <<>>)
  /\ inflight = [o \in Objs |-> NoStream]

\* init testing file.empty() before it assigns journey() to *this
init_keeping(o, file) ==
  /\ journal' = IF file = "" THEN journal ELSE [journal EXCEPT ![o] = file]
  /\ toc' = IF file = "" THEN toc ELSE [toc EXCEPT ![o] = EmptyToc]
  /\ ret' = Ret("init", file # "", <<>>)
  /\ UNCHANGED <<files, log, inflight>>

\* bool init( const std::string &file )
init(o, file) ==
  /\ journal' = [journal EXCEPT ![o] = file]
  /\ toc' = [toc EXCEPT ![o] = EmptyToc]
  /\ ret' = Ret("init", file # "", <<>>)
  /\ UNCHANGED <<files, log, inflight>>

\* bool load( beg_stamp, end_stamp )
Load(o, beg_stamp, end_stamp) ==
  LET r == load(File(journal[o]), journal[o], beg_stamp, end_stamp)
  IN /\ toc' = [toc EXCEPT ![o] = r.toc]
     /\ ret' = Ret("load", r.ok, <<>>)
     /\ UNCHANGED <<files, journal, log, inflight>>

\* std::string read( const std::string &name ) const
Read(o, name) ==
  /\ ret' = Ret("read", read_into(File(journal[o]), journal[o], toc[o], name).ok,
                read(File(journal[o]), journal[o], toc[o], name))
  /\ UNCHANGED <<files, journal, toc, log, inflight>>

\* bool append( filename, ptr, len, stamp ) const
AppendEntry(o, filename, data, stamp) ==
  LET p == journal[o]
  IN IF append_ok(p, filename, FALSE)
     THEN LET w == append_writes(files[p].b, filename, data, stamp)
          IN /\ Len(log[p]) < MaxAppends
             /\ files' = [files EXCEPT ![p] = append(files[p], p, filename, data, FALSE, stamp)]
             /\ log' = [log EXCEPT ![p] = Append(@, [name |-> filename, data |-> data,
                                                      stamp |-> stamp, start |-> w.start,
                                                      offset |-> w.offset, info |-> w.info])]
             /\ ret' = Ret("append", TRUE, <<>>)
             /\ UNCHANGED <<journal, toc, inflight>>
     ELSE /\ ret' = Ret("append", FALSE, <<>>)
          /\ UNCHANGED <<files, journal, toc, log, inflight>>

\* bool append( filename, ptr, len, stamp ) const, ptr null or not
AppendCall(o, filename, data, ptr_null, stamp) ==
  IF append_ok(journal[o], filename, ptr_null)
  THEN AppendEntry(o, filename, data, stamp)
  ELSE /\ ret' = Ret("append", FALSE, <<>>)
       /\ UNCHANGED <<files, journal, toc, log, inflight>>

\* bool compact( const std::string &new_journal_file ) const
Compact(o, new_journal_file) ==
  LET r == compact(files, journal[o], toc[o], new_journal_file)
  IN /\ new_journal_file = "" \/ Len(log[new_journal_file]) < MaxAppends
     /\ files' = r.files
     /\ log' = IF new_journal_file = "" THEN log
               ELSE [log EXCEPT ![new_journal_file] = @ \o r.wrote]
     /\ ret' = Ret("compact", r.ok, <<>>)
     /\ UNCHANGED <<journal, toc, inflight>>

(***************************************************************************)
(* append in steps: the stream is opened and the entry is computed from    *)
(* the position the stream reports; the bytes reach the file afterwards,   *)
(* in one write or in several, at the end the file has by then.            *)
(***************************************************************************)
\* the bytes append puts into a stream whose tellp() was pos when it was
\* opened, with the places of the payload and of the info block among them
AppendBlock(pos, filename, data, stamp) ==
  LET w == append_writes(Zeros(pos), filename, data, stamp)
  IN [bytes  |-> SubSeq(w.b, pos + 1, Len(w.b)),
      offset |-> w.offset - pos,
      info   |-> w.info - pos]

\* the appends to path p that have begun: returned, under way or interrupted
Begun(p) ==
  Len(log[p]) + Cardinality({o \in Objs : inflight[o].open \/ inflight[o].buf # <<>>})

\* append up to its last ofs.write: std::ofstream ofs( journal, binary | app | ate )
\* creates the file, and the entry is in the buffer of the stream
Begin(o, filename, data, stamp) ==
  LET p == journal[o]
  IN /\ append_ok(p, filename, FALSE)
     /\ ~inflight[o].open
     /\ inflight[o].buf = <<>>
     /\ Begun(p) < MaxAppends
     /\ inflight' = [inflight EXCEPT ![o] =
                       [open |-> TRUE, pos |-> Len(files[p].b),
                        buf |-> AppendBlock(Len(files[p].b), filename, data, stamp).bytes,
                        sent |-> 0, name |-> filename, data |-> data,
                        stamp |-> stamp, start |-> 0]]
     /\ files' = [files EXCEPT ![p].ex = TRUE]
     /\ UNCHANGED <<journal, toc, log, ret>>

\* the next k bytes of the buffer reach the file, at its end (std::ios::app);
\* with the last of them the stream is closed and append returns ofs.good()
Write(o, k) ==
  LET p  == journal[o]
      s  == inflight[o]
      st == IF s.sent = 0 THEN Len(files[p].b) ELSE s.start
      bl == AppendBlock(s.pos, s.name, s.data, s.stamp)
  IN /\ s.open
     /\ k >= 1
     /\ k <= Len(s.buf)
     /\ files' = [files EXCEPT ![p].b = @ \o SubSeq(s.buf, 1, k)]
     /\ inflight' = [inflight EXCEPT ![o] =
                       [s EXCEPT !.open = k < Len(s.buf),
                                 !.buf = SubSeq(s.buf, k + 1, Len(s.buf)),
                                 !.sent = s.sent + k, !.start = st]]
     /\ IF k = Len(s.buf)
        THEN /\ log' = [log EXCEPT ![p] =
                         Append(@, [name |-> s.name, data |-> s.data, stamp |-> s.stamp,
                                    start |-> st, offset |-> st + bl.offset,
                                    info |-> st + bl.info])]
             /\ ret' = Ret("append", TRUE, <<>>)
        ELSE UNCHANGED <<log, ret>>
     /\ UNCHANGED <<journal, toc>>

\* the process dies inside append: the bytes of the buffer are lost
Crash(o) ==
  /\ inflight[o].open
  /\ inflight' = [inflight EXCEPT ![o].open = FALSE]
  /\ UNCHANGED <<files, journal, toc, log, ret>>

(***************************************************************************)
(* Spec: one archive object on journey.joy; append, load and read.         *)
(***************************************************************************)
Windows == {w \in (0..MaxStamp) \X ((0..MaxStamp) \cup {WidestEnd}) : TRUE}

JInit == init("j", ObjPath["j"])

JAppend == \E n \in Names, d \in Payloads, s \in Stamps : AppendEntry("j", n, d, s)

JLoad == \E w \in Windows : Load("j", w[1], w[2])

JRead == \E n \in Names : Read("j", n)

Next == JInit \/ JAppend \/ JLoad \/ JRead

Spec == Init /\ [][Next]_vars

(***************************************************************************)
(* SpecCompact: Spec, with compaction of journey.joy into journey2.joy and *)
(* a second archive object on journey2.joy.                                *)
(***************************************************************************)
JCompact == Compact("j", ObjPath["j2"])

J2Init == init("j2", ObjPath["j2"])

J2Load == Load("j2", 0, WidestEnd)

J2Read == \E n \in Names : Read("j2", n)

NextCompact == Next \/ JCompact \/ J2Init \/ J2Load \/ J2Read

SpecCompact == Init /\ [][NextCompact]_vars

(***************************************************************************)
(* SpecForeign: journey.joy starts as a foreign file, bytes that no append *)
(* wrote; the archive object appends to it, loads and reads.               *)
(***************************************************************************)
\* "garbage\n"
Garbage == <<103, 97, 114, 98, 97, 103, 101, 10>>

\* n foreign bytes; they hold no magic word
Foreign(n) == [i \in 1..n |-> Garbage[((i - 1) % 8) + 1]]

\* the multiples of 5 run through every residue modulo 8, below 8 * 5, where
\* load never reads the foreign bytes, and from 8 * 5 on, where it reads their
\* last 40 bytes as an info block
PrefixLens == {5 * k : k \in 0..MaxPrefix}

InitForeign ==
  /\ \E n \in PrefixLens :
       files = [p \in Paths |-> IF p = ObjPath["j"]
                                THEN [ex |-> TRUE, b |-> Foreign(n)] ELSE NoFile]
  /\ journal = [o \in Objs |-> ""]
  /\ toc = [o \in Objs |-> EmptyToc]
  /\ log = [p \in Paths |-> <<>>]
  /\ ret = Ret("new", TRUE, <<>>)
  /\ inflight = [o \in Objs |-> NoStream]

\* the caller's stamps decrease from one append to the next
FAppend ==
  \E n \in Names, d \in Payloads :
    AppendEntry("j", n, d, MaxAppends - (Len(log[ObjPath["j"]]) % MaxAppends))

FLoad == Load("j", 0, WidestEnd)

NextForeign == JInit \/ FAppend \/ FLoad \/ JRead

SpecForeign == InitForeign /\ [][NextForeign]_vars

(***************************************************************************)
(* SpecConcat: journey.joy and journey2.joy are two containers, each some  *)
(* foreign bytes followed by appended entries; glued.joy is made of the    *)
(* bytes of the first followed by the bytes of the second, and is loaded   *)
(* and read by a third archive object.                                     *)
(***************************************************************************)
G == "glued.joy"

\* foreign bytes before the entries of the second container: none, an
\* unaligned run, an aligned run
SecondPrefixLens == {0, 5, 8}

InitConcat ==
  /\ \E na \in PrefixLens, nb \in SecondPrefixLens :
       files = [p \in Paths |->
                  IF p = ObjPath["j"] THEN [ex |-> TRUE, b |-> Foreign(na)]
                  ELSE IF p = ObjPath["j2"] THEN [ex |-> TRUE, b |-> Foreign(nb)]
                  ELSE NoFile]
  /\ journal = ObjPath
  /\ toc = [o \in Objs |-> EmptyToc]
  /\ log = [p \in Paths |-> <<>>]
  /\ ret = Ret("init", TRUE, <<>>)
  /\ inflight = [o \in Objs |-> NoStream]

\* an append to either container, before they are glued; the model bounds
\* the entries of both together, and the caller's stamps decrease
CatAppend(o) ==
  /\ ~files[G].ex
  /\ Len(log[ObjPath["j"]]) + Len(log[ObjPath["j2"]]) < MaxAppends
  /\ \E n \in Names, d \in Payloads :
       AppendEntry(o, n, d, MaxAppends - Len(log[ObjPath["j"]]) - Len(log[ObjPath["j2"]]))

\* the file system glues the two containers: cat journey.joy journey2.joy > glued.joy
Glue ==
  /\ ~files[G].ex
  /\ files' = [files EXCEPT ![G] =
                 [ex |-> TRUE, b |-> files[ObjPath["j"]].b \o files[ObjPath["j2"]].b]]
  /\ ret' = Ret("glue", TRUE, <<>>)
  /\ UNCHANGED <<journal, toc, log, inflight>>

GLoad == \E w \in {<<0, WidestEnd>>, <<0, 1>>} : Load("j3", w[1], w[2])

GRead == \E n \in Names : Read("j3", n)

NextConcat == CatAppend("j") \/ CatAppend("j2") \/ Glue \/ GLoad \/ GRead

SpecConcat == InitConcat /\ [][NextConcat]_vars

(***************************************************************************)
(* SpecArgs: one archive object, with the calls that the code rejects:     *)
(* init on the empty path; append with the empty name, with a null         *)
(* pointer, or on an object that has no path.                              *)
(***************************************************************************)
JInitEmpty == init("j", "")

\* the names a caller may pass, the empty name among them
ArgNames == Names \cup {<<>>}

\* the stamp the caller gives to the next entry of journey.joy
NextStamp == MaxAppends - (Len(log[ObjPath["j"]]) % MaxAppends)

AAppend ==
  \E n \in ArgNames, d \in Payloads, ptr_null \in BOOLEAN :
    AppendCall("j", n, d, ptr_null, NextStamp)

NextArgs == JInit \/ JInitEmpty \/ AAppend \/ FLoad \/ JRead

SpecArgs == Init /\ [][NextArgs]_vars

(***************************************************************************)
(* SpecCorrupt: journey.joy is written by appends, and the storage may     *)
(* damage one word of the info block of one entry, leaving its magic       *)
(* intact: the word becomes a length larger than the whole file.           *)
(***************************************************************************)
\* the words of an info block after stamp, and their place in the block
Fields == {"namelen", "datalen", "filelen"}

FieldOffset(field) ==
  IF field = "namelen" THEN 8 ELSE IF field = "datalen" THEN 16 ELSE 24

\* the word of the info block at offset info of b that holds field
InfoWord(b, info, field) ==
  Dec64(SubSeq(b, info + FieldOffset(field) + 1, info + FieldOffset(field) + 8)).v

\* the value append wrote into field of entry e
Written(e, field) ==
  IF field = "namelen" THEN Len(e.name)
  ELSE IF field = "datalen" THEN Len(e.data) ELSE e.info - e.start

\* field of entry i of path p no longer holds what append wrote
Damaged(p, i, field) ==
  InfoWord(files[p].b, log[p][i].info, field) # Written(log[p][i], field)

\* b with the eight bytes at offset off replaced by the word n
Poke(b, off, n) ==
  [k \in 1..Len(b) |-> IF k > off /\ k <= off + 8 THEN Enc64(n)[k - off] ELSE b[k]]

\* the storage damages field of entry i of journey.joy, once
Corrupt(i, field) ==
  /\ \A k \in 1..Len(log[ObjPath["j"]]), g \in Fields : ~Damaged(ObjPath["j"], k, g)
  /\ files' = [files EXCEPT ![ObjPath["j"]].b =
                 Poke(@, log[ObjPath["j"]][i].info + FieldOffset(field), Len(@) + 1)]
  /\ ret' = Ret("corrupt", TRUE, <<>>)
  /\ UNCHANGED <<journal, toc, log, inflight>>

JCorrupt == \E i \in 1..Len(log[ObjPath["j"]]), field \in Fields : Corrupt(i, field)

NextCorrupt == JInit \/ FAppend \/ JCorrupt \/ FLoad \/ JRead

SpecCorrupt == Init /\ [][NextCorrupt]_vars

(***************************************************************************)
(* SpecShared: two archive objects on journey.joy; each appends, loads and *)
(* reads, one call at a time.                                              *)
(***************************************************************************)
Sharers == {"j", "j2"}

J2InitShared == init("j2", ObjPath["j"])

SAppend == \E o \in Sharers, n \in Names, d \in Payloads : AppendEntry(o, n, d, NextStamp)

SLoad == \E o \in Sharers : Load(o, 0, WidestEnd)

SRead == \E o \in Sharers, n \in Names : Read(o, n)

NextShared == JInit \/ J2InitShared \/ SAppend \/ SLoad \/ SRead

SpecShared == Init /\ [][NextShared]_vars

(***************************************************************************)
(* SpecTorn: the object j appends to journey.joy in steps and may die      *)
(* inside an append, once; the object j3, of another process, loads and    *)
(* reads the file meanwhile.                                               *)
(***************************************************************************)
InitTorn ==
  /\ files = [p \in Paths |-> NoFile]
  /\ journal = [o \in Objs |-> ObjPath["j"]]
  /\ toc = [o \in Objs |-> EmptyToc]
  /\ log = [p \in Paths |-> <<>>]
  /\ ret = Ret("init", TRUE, <<>>)
  /\ inflight = [o \in Objs |-> NoStream]

\* the bytes of a write that does not empty the buffer
ChunkLen == 5

TBegin == \E n \in Names, d \in Payloads : Begin("j", n, d, NextStamp)

TWrite == \E k \in {ChunkLen, Len(inflight["j"].buf)} : Write("j", k)

TCrash == Crash("j")

RLoad == Load("j3", 0, WidestEnd)

RRead == \E n \in Names : Read("j3", n)

NextTorn == TBegin \/ TWrite \/ TCrash \/ RLoad \/ RRead

SpecTorn == InitTorn /\ [][NextTorn]_vars

(***************************************************************************)
(* SpecWriters: two processes, with the objects j and j2, append to        *)
(* journey.joy, which starts as a foreign file of any length; both may     *)
(* have opened the file before either has written, and the entry of each   *)
(* reaches the file in one write. The object j3 loads and reads.           *)
(***************************************************************************)
InitWriters ==
  /\ \E n \in PrefixLens :
       files = [p \in Paths |-> IF p = ObjPath["j"]
                                THEN [ex |-> TRUE, b |-> Foreign(n)] ELSE NoFile]
  /\ journal = [o \in Objs |-> ObjPath["j"]]
  /\ toc = [o \in Objs |-> EmptyToc]
  /\ log = [p \in Paths |-> <<>>]
  /\ ret = Ret("init", TRUE, <<>>)
  /\ inflight = [o \in Objs |-> NoStream]

\* the callers' stamps decrease from one call of append to the next
WBegin ==
  \E o \in Sharers, n \in Names, d \in Payloads :
    Begin(o, n, d, MaxAppends - (Begun(ObjPath["j"]) % MaxAppends))

WFlush == \E o \in Sharers : Write(o, Len(inflight[o].buf))

NextWriters == WBegin \/ WFlush \/ RLoad \/ RRead

SpecWriters == InitWriters /\ [][NextWriters]_vars

(***************************************************************************)
(* Properties of Spec.                                                     *)
(***************************************************************************)
J == "journey.joy"

\* the record that load inscribes for entry e
RecordOf(e) == [offset |-> e.offset, size |-> Len(e.data), stamp |-> e.stamp]

\* load( beg, end ) followed by read( name ) on the file at path p
LoadRead(p, beg_stamp, end_stamp, name) ==
  read_into(files[p], p, load(files[p], p, beg_stamp, end_stamp).toc, name)

\* C1: round trip. After append( N, P, S ) returned true on a file written by
\* appends, load( 0, S ) returns true and read( N ) returns exactly P.
C1_RoundTrip ==
  log[J] # <<>> =>
    LET e == Last(log[J])
        r == load(files[J], J, 0, e.stamp)
    IN /\ r.ok
       /\ read(files[J], J, r.toc, e.name) = e.data
       /\ read_into(files[J], J, r.toc, e.name).ok

\* the object has loaded and read back the entry appended last, which follows
\* an entry of the same name with a larger stamp
C1_Witness ==
  /\ Len(log[J]) = 2
  /\ log[J][1].name = log[J][2].name
  /\ log[J][1].stamp > log[J][2].stamp
  /\ log[J][2].data # <<>>
  /\ log[J][2].name \in DOMAIN toc["j"]
  /\ toc["j"][log[J][2].name].offset = log[J][2].offset
  /\ ret = Ret("read", TRUE, log[J][2].data)

\* the pairs i < k of entries of name N with stamps S1 < S2 and payloads
\* P1 # P2, N naming no other entry
RevisionPairs(p) ==
  {ik \in (1..Len(log[p])) \X (1..Len(log[p])) :
     /\ ik[1] < ik[2]
     /\ log[p][ik[1]].name = log[p][ik[2]].name
     /\ log[p][ik[1]].stamp < log[p][ik[2]].stamp
     /\ log[p][ik[1]].data # log[p][ik[2]].data
     /\ \A m \in 1..Len(log[p]) :
          log[p][m].name = log[p][ik[1]].name => m \in {ik[1], ik[2]}}

\* C2: newest wins within the window. With N appended at S1 with P1 and later
\* at S2 > S1 with P2 # P1, after load( 0, T ) read( N ) returns P2 if T >= S2,
\* P1 if S1 <= T < S2, and nothing (not found) if T < S1.
C2_NewestWins ==
  \A ik \in RevisionPairs(J) :
    \A T \in (0..MaxStamp) \cup {WidestEnd} :
      LET e1 == log[J][ik[1]]
          e2 == log[J][ik[2]]
          r  == LoadRead(J, 0, T, e1.name)
      IN /\ T >= e2.stamp => r.ok /\ r.data = e2.data
         /\ (e1.stamp <= T /\ T < e2.stamp) => r.ok /\ r.data = e1.data
         /\ T < e1.stamp => ~r.ok /\ r.data = <<>>

\* the object has loaded a window that holds S1 and not S2, and has read P1
C2_Witness ==
  \E ik \in RevisionPairs(J) :
    /\ log[J][ik[1]].data # <<>>
    /\ log[J][ik[1]].name \in DOMAIN toc["j"]
    /\ toc["j"][log[J][ik[1]].name].stamp = log[J][ik[1]].stamp
    /\ ret = Ret("read", TRUE, log[J][ik[1]].data)

\* C6, as claimed: every entry ( N, P, S ) ever appended has a window
\* [ beg, end ] for which load( beg, end ) and read( N ) return P.
C6_EveryEntryRecoverable ==
  \A i \in 1..Len(log[J]) :
    \E w \in Windows :
      read(files[J], J, load(files[J], J, w[1], w[2]).toc, log[J][i].name)
        = log[J][i].data

\* no later append used the name and the stamp of entry i
NotShadowed(p, i) ==
  \A k \in (i + 1)..Len(log[p]) :
    ~(log[p][k].name = log[p][i].name /\ log[p][k].stamp = log[p][i].stamp)

\* C6, amended: every entry ( N, P, S ) that no later append of the same name
\* and the same stamp follows has a window for which load and read( N )
\* return P; later appends of the name with another stamp do not hide it.
C6_UnshadowedRecoverable ==
  \A i \in 1..Len(log[J]) :
    NotShadowed(J, i) =>
      \E w \in Windows :
        LET r == LoadRead(J, w[1], w[2], log[J][i].name)
        IN r.ok /\ r.data = log[J][i].data

\* the object has read back an old version that a later append of the same
\* name, with a smaller stamp, follows
C6_Witness ==
  /\ Len(log[J]) = 2
  /\ log[J][1].name = log[J][2].name
  /\ log[J][2].stamp < log[J][1].stamp
  /\ log[J][1].data # log[J][2].data
  /\ log[J][1].data # <<>>
  /\ log[J][1].name \in DOMAIN toc["j"]
  /\ toc["j"][log[J][1].name].offset = log[J][1].offset
  /\ ret = Ret("read", TRUE, log[J][1].data)

\* C12, as claimed: load( beg, end ) returns true exactly when an entry of the
\* container has its stamp within the window.
C12_TrueIffInWindow ==
  \A w \in Windows :
    load(files[J], J, w[1], w[2]).ok <=>
      \E i \in 1..Len(log[J]) : w[1] <= log[J][i].stamp /\ log[J][i].stamp <= w[2]

\* C12, amended: load( beg, end ) returns true exactly when beg <= end and
\* the container holds an entry, whether or not a stamp lies within the
\* window; the toc holds the names with a stamp within the window.
C12_TrueIffEntryVisited ==
  \A w \in Windows :
    LET r == load(files[J], J, w[1], w[2])
    IN /\ r.ok <=> (w[1] <= w[2] /\ log[J] # <<>>)
       /\ DOMAIN r.toc =
            {log[J][i].name : i \in {k \in 1..Len(log[J]) :
               w[1] <= log[J][k].stamp /\ log[J][k].stamp <= w[2]}}

\* load has returned true and has inscribed nothing: the entries of the
\* container lie outside the window
C12_Witness ==
  /\ ret = Ret("load", TRUE, <<>>)
  /\ log[J] # <<>>
  /\ toc["j"] = EmptyToc

(***************************************************************************)
(* Properties of SpecCompact.                                              *)
(***************************************************************************)
J2 == "journey2.joy"

\* the names of t hold no NUL byte
NulFree(t) == \A n \in DOMAIN t : c_str(n) = n

\* the last operation was a compact of j that returned true
Compacted == ret = Ret("compact", TRUE, <<>>)

\* journey2.joy did not exist before the compact that returned last: it holds
\* as many entries as the toc of j has names
CompactedFresh == Compacted /\ Len(log[J2]) = Cardinality(DOMAIN toc["j"])

\* C3, as claimed: after load( beg, end ) and a compact that returned true
\* into a path that did not exist, a new archive on that path, loaded with the
\* widest window, has the keys of the compacted toc, and each key reads the
\* same payload and holds the same stamp; names with NUL bytes included.
C3_CompactKeepsToc ==
  CompactedFresh =>
    LET t2 == load(files[J2], J2, 0, WidestEnd).toc
    IN /\ DOMAIN t2 = DOMAIN toc["j"]
       /\ \A n \in DOMAIN toc["j"] :
            /\ read(files[J2], J2, t2, n) = read(files[J], J, toc["j"], n)
            /\ t2[n].stamp = toc["j"][n].stamp

\* C4, as claimed: after a compact that returned true, the container at the
\* new path holds exactly one entry per name of the toc and no other entry,
\* whatever the path held before.
C4_CompactWritesFresh ==
  (Compacted /\ NulFree(toc["j"])) =>
    /\ Len(log[J2]) = Cardinality(DOMAIN toc["j"])
    /\ \A n \in DOMAIN toc["j"] :
         Cardinality({i \in 1..Len(log[J2]) : log[J2][i].name = n}) = 1
    /\ load(files[J2], J2, 0, WidestEnd).seen # <<>>
    /\ Len(load(files[J2], J2, 0, WidestEnd).seen) = Cardinality(DOMAIN toc["j"])

\* the largest stamp among the entries of name n appended to path p
MaxStampOf(p, n) ==
  CHOOSE s \in {log[p][i].stamp : i \in {k \in 1..Len(log[p]) : log[p][k].name = n}} :
    \A i \in 1..Len(log[p]) : log[p][i].name = n => log[p][i].stamp <= s

\* C5, as claimed: after a load whose window holds every stamp and a compact
\* into a path that did not exist, each name is kept exactly once and the
\* revision kept is the one with the largest stamp among the name's revisions.
C5_CompactKeepsLargestStamp ==
  ( /\ CompactedFresh
    /\ toc["j"] = load(files[J], J, 0, WidestEnd).toc
    /\ NulFree(toc["j"]) ) =>
    \A n \in {log[J][i].name : i \in 1..Len(log[J])} :
      /\ Cardinality({i \in 1..Len(log[J2]) : log[J2][i].name = n}) = 1
      /\ \A i \in 1..Len(log[J2]) :
           log[J2][i].name = n => log[J2][i].stamp = MaxStampOf(J, n)

(***************************************************************************)
(* Properties of SpecForeign.                                              *)
(***************************************************************************)
\* the bytes journey.joy held before the first append
PrefixLen(p) == IF log[p] = <<>> THEN Len(files[p].b) ELSE log[p][1].start

\* the entry appended last to path p under name n
Newest(p, n) ==
  log[p][CHOOSE i \in 1..Len(log[p]) :
           /\ log[p][i].name = n
           /\ \A k \in (i + 1)..Len(log[p]) : log[p][k].name # n]

LogNames(p) == {log[p][i].name : i \in 1..Len(log[p])}

\* C9: foreign support. After appends to a file of foreign bytes, load with
\* the widest window returns true, the toc holds exactly the appended names,
\* each with its newest entry, whose payload reads back; the scan visits the
\* appended entries only, so no foreign byte is inscribed.
C9_AppendOntoForeign ==
  log[J] # <<>> =>
    LET r == load(files[J], J, 0, WidestEnd)
    IN /\ r.ok
       /\ DOMAIN r.toc = LogNames(J)
       /\ Len(r.seen) = Len(log[J])
       /\ \A n \in LogNames(J) :
            /\ r.toc[n] = [offset |-> Newest(J, n).offset,
                           size   |-> Len(Newest(J, n).data),
                           stamp  |-> Newest(J, n).stamp]
            /\ r.toc[n].offset >= PrefixLen(J)
            /\ read_into(files[J], J, r.toc, n) = [ok |-> TRUE, data |-> Newest(J, n).data]

\* after two appends of one name to 40 or more foreign bytes of unaligned
\* length, the object has loaded and read the newer payload
C9_Witness ==
  /\ PrefixLen(J) > 40
  /\ PrefixLen(J) % 8 # 0
  /\ Len(log[J]) = 2
  /\ log[J][1].name = log[J][2].name
  /\ log[J][1].stamp > log[J][2].stamp
  /\ log[J][1].data # log[J][2].data
  /\ log[J][2].data # <<>>
  /\ toc["j"] = load(files[J], J, 0, WidestEnd).toc
  /\ ret = Ret("read", TRUE, log[J][2].data)

\* C10: alignment. Whatever the length of the initial file, every payload
\* and every info block that append writes starts at a multiple of 8, and so
\* does every offset of a toc that load builds.
C10_Aligned ==
  /\ \A i \in 1..Len(log[J]) :
       LET e == log[J][i]
       IN /\ e.offset % 8 = 0
          /\ e.info % 8 = 0
          /\ SubSeq(files[J].b, e.offset + 1, e.offset + Len(e.data)) = e.data
          /\ SubSeq(files[J].b, e.info + 33, e.info + 40) = magic_right_endian
  /\ \A n \in DOMAIN toc["j"] : toc["j"][n].offset % 8 = 0
  /\ LET t == load(files[J], J, 0, WidestEnd).toc
     IN \A n \in DOMAIN t : t[n].offset % 8 = 0

\* the initial file has an unaligned length, a payload of 9 bytes is followed
\* by a second entry, and the object holds a toc of both names
C10_Witness ==
  /\ PrefixLen(J) % 8 # 0
  /\ Len(log[J]) = 2
  /\ Len(log[J][1].data) = 9
  /\ log[J][2].start = log[J][1].info + 40
  /\ Cardinality(DOMAIN toc["j"]) = 2

\* C14: bad magic and short files. When the scan meets 40 bytes without the
\* magic after it visited an entry, load returns true, whatever the window,
\* with the toc of the entries visited; when the last 40 bytes of the file
\* do not carry the magic, and when the file is shorter than 40 bytes, load
\* returns false with an empty toc.
C14_BadMagicShortFile ==
  \A w \in {v \in Windows : v[1] <= v[2]} :
    LET r == load(files[J], J, w[1], w[2])
    IN /\ (log[J] # <<>> /\ PrefixLen(J) >= 40) =>
            /\ r.ok
            /\ r.stop = "break"
            /\ Len(r.seen) = Len(log[J])
            /\ w = <<0, WidestEnd>> =>
                 /\ DOMAIN r.toc = LogNames(J)
                 /\ \A n \in LogNames(J) : r.toc[n] = RecordOf(Newest(J, n))
       /\ (log[J] = <<>> /\ Len(files[J].b) >= 40) =>
            ~r.ok /\ r.toc = EmptyToc /\ r.stop = "break" /\ r.seen = <<>>
       /\ (log[J] = <<>> /\ Len(files[J].b) < 40) =>
            ~r.ok /\ r.toc = EmptyToc /\ r.stop = "no" /\ r.seen = <<>>

\* 40 or more foreign bytes precede two entries, and the object has loaded:
\* load returned true and the toc holds the names of both
C14_Witness ==
  /\ PrefixLen(J) >= 40
  /\ Len(log[J]) = 2
  /\ ret = Ret("load", TRUE, <<>>)
  /\ DOMAIN toc["j"] = Names

\* where the entry before entry i of path p ends: the end of the foreign
\* bytes for the first entry
PreviousEnd(p, i) == IF i = 1 THEN PrefixLen(p) ELSE log[p][i - 1].info + 40

\* C20, as claimed: the filelen in the info block of an entry is the length
\* of the whole entry, its three paddings, name, NUL, payload and the 40
\* bytes of the info block, so that the entry before an entry that ends at E
\* ends at E - filelen.
C20_FilelenCountsInfoBlock ==
  \A i \in 1..Len(log[J]) :
    LET e == log[J][i]
        E == e.info + 40
        filelen == InfoWord(files[J].b, e.info, "filelen")
    IN /\ filelen = E - e.start
       /\ PreviousEnd(J, i) = E - filelen

\* C20, amended: the filelen of an entry is the length of its file block,
\* the three paddings, name, NUL and payload, without the 40 bytes of the
\* info block; the entry before an entry that ends at E ends at
\* E - 40 - filelen, and load goes on from there: it visits every entry.
C20_FilelenIsFileBlock ==
  /\ \A i \in 1..Len(log[J]) :
       LET e == log[J][i]
           E == e.info + 40
           filelen == InfoWord(files[J].b, e.info, "filelen")
       IN /\ filelen = e.info - e.start
          /\ filelen = (e.offset - e.start) + Len(e.data) + PadLen(e.offset + Len(e.data))
          /\ PreviousEnd(J, i) = E - 40 - filelen
  /\ Len(load(files[J], J, 0, WidestEnd).seen) = Len(log[J])

\* two entries follow foreign bytes of unaligned length, the first with a
\* payload of 9 bytes and paddings, and the object has loaded both: the scan
\* stepped from the second entry to the first
C20_Witness ==
  /\ PrefixLen(J) % 8 # 0
  /\ Len(log[J]) = 2
  /\ Len(log[J][1].data) = 9
  /\ log[J][1].offset - log[J][1].start > Len(log[J][1].name) + 1
  /\ DOMAIN toc["j"] = Names
  /\ toc["j"][log[J][1].name] = RecordOf(log[J][1])
  /\ ret = Ret("load", TRUE, <<>>)

(***************************************************************************)
(* Properties of SpecConcat.                                               *)
(***************************************************************************)
\* glued.joy holds the bytes of journey.joy followed by those of journey2.joy
Glued == files[G].ex /\ files[G].b = files[J].b \o files[J2].b

\* the toc of the glued file is the union of the tocs t1 and t2 of the two
\* containers, t2 taking the names of both, each offset pointing at the
\* payload in the glued file
UnionToc(tg, t1, t2) ==
  /\ DOMAIN tg = DOMAIN t1 \cup DOMAIN t2
  /\ \A n \in DOMAIN t2 : tg[n] = [t2[n] EXCEPT !.offset = @ + Len(files[J].b)]
  /\ \A n \in DOMAIN t1 \ DOMAIN t2 : tg[n] = t1[n]
  /\ \A n \in DOMAIN tg :
       read_into(files[G], G, tg, n) =
         IF n \in DOMAIN t2 THEN read_into(files[J2], J2, t2, n)
         ELSE read_into(files[J], J, t1, n)

\* C7, as claimed: for two containers, each foreign bytes followed by appended
\* entries, load with the widest window on the first followed by the second
\* yields the union of the two tocs, the second taking the names of both.
C7_ConcatUnion ==
  Glued =>
    UnionToc(load(files[G], G, 0, WidestEnd).toc,
             load(files[J], J, 0, WidestEnd).toc,
             load(files[J2], J2, 0, WidestEnd).toc)

\* the second container has no foreign bytes in front of entries that follow
\* entries of the first, and its entries start at a multiple of 8
Glueable ==
  /\ log[J] = <<>> \/ PrefixLen(J2) = 0
  /\ log[J2] = <<>> \/ Len(files[J].b) % 8 = 0

\* C7, amended: the union holds when the second container has no foreign
\* prefix (or the first has no entry) and the length of the first is a
\* multiple of 8 (or the second has no entry).
C7_ConcatUnionAligned ==
  (Glued /\ Glueable) =>
    UnionToc(load(files[G], G, 0, WidestEnd).toc,
             load(files[J], J, 0, WidestEnd).toc,
             load(files[J2], J2, 0, WidestEnd).toc)

\* the third object has loaded the glued file and read a payload of the first
\* container, which has foreign bytes of unaligned length and an entry; the
\* second container has an entry too
C7_Witness ==
  /\ Glued
  /\ Glueable
  /\ PrefixLen(J) % 8 # 0
  /\ Len(log[J]) = 1
  /\ Len(log[J2]) = 1
  /\ log[J][1].name # log[J2][1].name
  /\ log[J][1].data # <<>>
  /\ Cardinality(DOMAIN toc["j3"]) = 2
  /\ ret = Ret("read", TRUE, log[J][1].data)

\* loading the glued file gives what loading journey2.joy gives: the value
\* returned, and for each name the stamp, the size and the payload read
SameLoad(beg_stamp, end_stamp) ==
  LET rg == load(files[G], G, beg_stamp, end_stamp)
      ra == load(files[J2], J2, beg_stamp, end_stamp)
  IN /\ rg.ok = ra.ok
     /\ DOMAIN rg.toc = DOMAIN ra.toc
     /\ \A n \in DOMAIN ra.toc :
          /\ rg.toc[n].stamp = ra.toc[n].stamp
          /\ rg.toc[n].size = ra.toc[n].size
          /\ read_into(files[G], G, rg.toc, n) = read_into(files[J2], J2, ra.toc, n)

\* journey.joy is foreign bytes only and journey2.joy was written by appends only
ForeignThenJournal == Glued /\ log[J] = <<>> /\ PrefixLen(J2) = 0

\* C8, as claimed: for foreign bytes F of any length and a container A written
\* by appends, loading F followed by A gives the names, stamps, sizes and
\* payloads that loading A gives.
C8_ForeignPrefixAnyLength ==
  ForeignThenJournal => \A w \in Windows : SameLoad(w[1], w[2])

\* C8, amended: the same, for foreign bytes whose length is a multiple of 8.
C8_ForeignPrefixAligned ==
  (ForeignThenJournal /\ Len(files[J].b) % 8 = 0) =>
    \A w \in Windows : SameLoad(w[1], w[2])

\* 40 foreign bytes precede a container of two entries, and the third object
\* has loaded the glued file and read a payload
C8_Witness ==
  /\ ForeignThenJournal
  /\ Len(files[J].b) = 40
  /\ Len(log[J2]) = 2
  /\ log[J2][2].data # <<>>
  /\ log[J2][2].name \in DOMAIN toc["j3"]
  /\ toc["j3"][log[J2][2].name].offset = log[J2][2].offset + 40
  /\ ret = Ret("read", TRUE, log[J2][2].data)

(***************************************************************************)
(* Properties of SpecArgs.                                                 *)
(***************************************************************************)
\* the step is a call of init that returned false: init( "" )
InitEmptyStep == ret' = Ret("init", FALSE, <<>>)

\* C11, as claimed: init( "" ) on an object that has a path and a non-empty
\* toc returns false and leaves the path and the toc as they were.
C11_InitEmptyKeepsState ==
  [][(InitEmptyStep /\ journal["j"] # "" /\ toc["j"] # EmptyToc) =>
       (journal' = journal /\ toc' = toc)]_vars

\* C11, amended: init( "" ) returns false and leaves the object as a
\* default-constructed one, its path empty and its toc empty; it touches no
\* file.
C11_InitEmptyResets ==
  [][InitEmptyStep =>
       (journal'["j"] = "" /\ toc'["j"] = EmptyToc /\ files' = files)]_vars

\* init( "" ) has returned false on the object that appended to journey.joy;
\* the file holds entries that a load would inscribe, the object has no path
\* and an empty toc
C11_Witness ==
  /\ ret = Ret("init", FALSE, <<>>)
  /\ log[J] # <<>>
  /\ load(files[J], J, 0, WidestEnd).toc # EmptyToc
  /\ journal["j"] = ""
  /\ toc["j"] = EmptyToc

\* the arguments that append rejects
Rejected(path, filename, ptr_null) == path = "" \/ filename = <<>> \/ ptr_null

\* C15: append with an empty archive path, an empty name or a null pointer
\* returns false and leaves every file as it was, a file that does not exist
\* included; with a path, a name and a pointer it returns true, also for a
\* payload of length zero, and the entry is in the file.
C15_AppendRejects ==
  [][\A n \in ArgNames, d \in Payloads, ptr_null \in BOOLEAN :
       AppendCall("j", n, d, ptr_null, NextStamp) =>
         IF Rejected(journal["j"], n, ptr_null)
         THEN ret' = Ret("append", FALSE, <<>>) /\ files' = files
         ELSE /\ ret' = Ret("append", TRUE, <<>>)
              /\ files'[J].ex
              /\ LET t == load(files'[J], J, 0, WidestEnd).toc
                 IN /\ n \in DOMAIN t
                    /\ t[n].size = Len(d)
                    /\ t[n].stamp = NextStamp
                    /\ t[n].offset >= Len(files[J].b)]_vars

\* append has returned false on an object that has a path, and journey.joy
\* does not exist
C15_Witness ==
  /\ ret = Ret("append", FALSE, <<>>)
  /\ journal["j"] = J
  /\ ~files[J].ex

(***************************************************************************)
(* Properties of SpecCorrupt.                                              *)
(***************************************************************************)
\* C13, as claimed: when the filelen of entry i has become a length that
\* reaches before the start of the file, load ends its scan and the toc holds
\* records of the entries appended after entry i only, each with the offset,
\* the size and the stamp of such an entry.
C13_CorruptionNotInscribed ==
  \A i \in 1..Len(log[J]) :
    Damaged(J, i, "filelen") =>
      LET r == load(files[J], J, 0, WidestEnd)
      IN /\ r.stop \in {"no", "break"}
         /\ \A n \in DOMAIN r.toc :
              \E k \in (i + 1)..Len(log[J]) :
                log[J][k].name = n /\ r.toc[n] = RecordOf(log[J][k])

(***************************************************************************)
(* Properties of SpecShared.                                               *)
(***************************************************************************)
\* C16: append leaves the index valid. A step that changes a file, which is
\* an append by either object, changes no toc, and every name of the toc of
\* either object reads the payload it read before the append, the payload of
\* the entry that the load inscribed; an entry appended since is not in the
\* toc before the next load.
C16_AppendKeepsTocValid ==
  [][files' # files =>
       /\ toc' = toc
       /\ \A o \in Sharers : \A n \in DOMAIN toc[o] :
            /\ read_into(files'[J], journal'[o], toc'[o], n)
                 = read_into(files[J], journal[o], toc[o], n)
            /\ \E k \in 1..Len(log[J]) :
                 /\ log[J][k].name = n
                 /\ toc[o][n] = RecordOf(log[J][k])
                 /\ read_into(files'[J], journal'[o], toc'[o], n)
                      = [ok |-> TRUE, data |-> log[J][k].data]]_vars

\* after a second entry of the name was appended, j has read the payload of
\* the first through its toc, while j2, which has loaded since, holds the
\* record of the second
C16_Witness ==
  /\ Len(log[J]) = 2
  /\ log[J][1].name = log[J][2].name
  /\ log[J][1].data # log[J][2].data
  /\ log[J][1].data # <<>>
  /\ log[J][1].name \in DOMAIN toc["j"]
  /\ log[J][1].name \in DOMAIN toc["j2"]
  /\ toc["j"][log[J][1].name] = RecordOf(log[J][1])
  /\ toc["j2"][log[J][1].name] = RecordOf(log[J][2])
  /\ ret = Ret("read", TRUE, log[J][1].data)

(***************************************************************************)
(* Properties of SpecTorn.                                                 *)
(***************************************************************************)
\* an append of j was interrupted after a proper prefix of its entry
Torn == ~inflight["j"].open /\ inflight["j"].buf # <<>>

\* C17, as claimed: after an append was interrupted with a proper prefix of
\* its entry in the file, load with the widest window inscribes every name
\* that has a complete entry, appended before the interrupted append or after
\* it, with the record of the newest complete entry of the name.
C17_TornAppendTolerated ==
  Torn =>
    LET r == load(files[J], J, 0, WidestEnd)
    IN \A n \in LogNames(J) :
         n \in DOMAIN r.toc /\ r.toc[n] = RecordOf(Newest(J, n))

\* what a caller of load( beg, end ) gets for a file of bytes b
Loaded(b, beg_stamp, end_stamp) ==
  LET r == load([ex |-> TRUE, b |-> b], J, beg_stamp, end_stamp)
  IN [ok |-> r.ok, toc |-> r.toc]

\* C18, as claimed: while an append of j is under way, with any part of its
\* entry in the file, a load by another process returns what load returns on
\* the file as it was before the append or what it returns on the file as it
\* is when the append has completed.
C18_LoadSeesOldOrNew ==
  inflight["j"].open =>
    LET s == inflight["j"]
        before == SubSeq(files[J].b, 1, Len(files[J].b) - s.sent)
        after  == files[J].b \o s.buf
    IN \A w \in {<<0, WidestEnd>>, <<0, 1>>} :
         Loaded(files[J].b, w[1], w[2])
           \in {Loaded(before, w[1], w[2]), Loaded(after, w[1], w[2])}

(***************************************************************************)
(* Properties of SpecWriters.                                              *)
(***************************************************************************)
\* no append is under way, and load with the widest window visits every
\* entry of the log, newest first, with its name, stamp and size, returns
\* true, and each name reads the payload of its newest entry
AllRecovered ==
  (log[J] # <<>> /\ \A o \in Sharers : ~inflight[o].open) =>
    LET r == load(files[J], J, 0, WidestEnd)
        n == Len(log[J])
    IN /\ r.ok
       /\ Len(r.seen) = n
       /\ \A i \in 1..n :
            /\ r.seen[i].name = log[J][n + 1 - i].name
            /\ r.seen[i].stamp = log[J][n + 1 - i].stamp
            /\ r.seen[i].size = Len(log[J][n + 1 - i].data)
       /\ DOMAIN r.toc = LogNames(J)
       /\ \A m \in LogNames(J) :
            /\ r.toc[m] = RecordOf(Newest(J, m))
            /\ read_into(files[J], J, r.toc, m) = [ok |-> TRUE, data |-> Newest(J, m).data]

\* C19, as claimed: two processes append to a container of any initial
\* length, the entry of each reaching the file as one block; afterwards load
\* with the widest window recovers every entry.
C19_WritersAnyLength == AllRecovered

\* C19, amended: the same for a container whose initial length is a multiple
\* of 8, the entry of each process reaching the file in a single write.
C19_WritersAligned == PrefixLen(J) % 8 = 0 => AllRecovered

\* both processes opened the file of 40 foreign bytes before either wrote,
\* both entries are in the file, and j3 has loaded both names and read a
\* payload
C19_Witness ==
  /\ Len(log[J]) = 2
  /\ PrefixLen(J) = 40
  /\ \A o \in Sharers : ~inflight[o].open /\ inflight[o].sent > 0 /\ inflight[o].pos = 40
  /\ inflight["j"].start # inflight["j2"].start
  /\ DOMAIN toc["j3"] = Names
  /\ \E i \in 1..2 : log[J][i].data # <<>> /\ ret = Ret("read", TRUE, log[J][i].data)

====
